---- MODULE Spec2Model ----
(***************************************************************************)
(* Model of tpu/templates/tpu_gan_estimator/trainer_single.py: the         *)
(* command-line script that parses its flags, applies the notebook         *)
(* (google.colab) special case, builds a TPU-backed or CPU-backed          *)
(* estimator and trains a GAN for a fixed number of steps.                 *)
(*                                                                         *)
(* A Python value that may be None is an option: None is the empty         *)
(* sequence and a present value v is the one-element sequence <<v>>.       *)
(* A dict is a TLA+ function whose DOMAIN is its key set.                  *)
(***************************************************************************)
EXTENDS Integers, Sequences, FiniteSets, TLC

None == <<>>
Some(v) == <<v>>
Get(opt) == opt[1]

(* ---------------- bounds of the explored inputs ---------------- *)

\* integer flag values explored besides the defaults: 1..MaxFlagInt
MaxFlagInt == 3
\* the global step restored from model_dir before training: 0..MaxRestoredStep
MaxRestoredStep == 1
\* training steps followed op by op when model_fn's train_op is run directly
MaxFnSteps == 2

(* ---------------- program constants ---------------- *)

DEFAULT_MODEL_DIR == "/tmp/tpu-template"
DEFAULT_TRAIN_BATCH_SIZE == 16
DEFAULT_SAVE_CHECKPOINTS_STEPS == 10
COLAB_MODEL_DIR == "gs://your-gcs-bucket"
NUM_SHARDS == 8
EVAL_BATCH_SIZE == 32
SAVE_SUMMARY_STEPS == 10
CPU_SAVE_CHECKPOINTS_STEPS == 10
TRAIN_STEPS == 100
DIS_LOOP_START == 0
DIS_LOOP_LIMIT == 100
data_size == 100
SHUFFLE_BUFFER == 10
FALLBACK_BATCH_SIZE == 16
Infinite == -1

Modes == {"train", "eval", "infer"}
TRAIN == "train"

(* ---------------- the inputs of one run ---------------- *)

\* values given on the command line; None means the flag is absent
ModelDirFlags == {None, Some("gs://my-bucket/run")}
BatchSizeFlags == {None, Some(8)}
CheckpointFlags == {None} \cup {Some(n) : n \in 1..MaxFlagInt}
TpuFlags == {None, Some("10.0.0.2:8470")}
\* os.environ['COLAB_TPU_ADDR']: unset, empty, or an address
ColabTpuAddrs == {None, Some(""), Some("10.1.2.3:8470")}

VARIABLES
    argv,          \* the command line: one option per flag, plus unknown extras
    sys_modules,   \* TRUE iff 'google.colab' is in sys.modules
    environ,       \* option: the value of COLAB_TPU_ADDR
    pc,            \* position of the script
    args,          \* the argparse namespace (a record), None before parsing
    params,        \* vars(args) as main captured it, None before main
    resolver,      \* option: the TPUClusterResolver main created
    config,        \* option: the RunConfig main created
    estimator,     \* option: the estimator main created
    built,         \* number of estimators constructed
    calls,         \* the framework calls made so far, in order
    failure,       \* option: the framework call whose failure ended the run
    espec,         \* option: the spec model_fn returned
    dataset,       \* option: the dataset train_input_fn returned
    batches,       \* batches drawn from the dataset
    lastBatch,     \* size of the last batch drawn (0 before the first)
    trainCalls,    \* number of estimator.train calls
    stepsArg,      \* steps= argument of the last estimator.train call
    startStep,     \* the global step when training began
    global_step,   \* the global step variable
    stepsRun,      \* training steps (session runs of train_op) completed
    loopLeft,      \* TPU mode: steps left in the current iterations_per_loop
    mode,          \* the mode model_fn is called with
    i,             \* the discriminator loop counter of the current/last step
    x,             \* the second loop variable of the discriminator loop
    disRuns,       \* evaluations of discriminator_train_op in this step
    genRuns,       \* evaluations of generator_train_op in this step
    stepIncs,      \* global_step.assign_add evaluations in this step
    disUpdates,    \* discriminator updates applied over the whole run
    genUpdates     \* generator updates applied over the whole run

vars == <<argv, sys_modules, environ, pc, args, params, resolver, config,
          estimator, built, calls, failure, espec, dataset, batches,
          lastBatch, trainCalls, stepsArg, startStep, global_step, stepsRun,
          loopLeft, mode, i, x, disRuns, genRuns, stepIncs, disUpdates,
          genUpdates>>

scriptVars == <<argv, sys_modules, environ, args, params, resolver, config,
                estimator, built, trainCalls, stepsArg>>
stepVars == <<i, x, disRuns, genRuns, stepIncs>>

(* ---------------- argparse ---------------- *)

Default(opt, d) == IF opt = None THEN d ELSE Get(opt)

\* variant: parser.parse_args(), which exits on an unrecognised argument
parse_args_strict(av) ==
    [ok |-> ~av.unknown,
     ns |-> [model_dir |-> Default(av.model_dir, DEFAULT_MODEL_DIR),
             train_batch_size |-> Default(av.train_batch_size, DEFAULT_TRAIN_BATCH_SIZE),
             save_checkpoints_steps |-> Default(av.save_checkpoints_steps, DEFAULT_SAVE_CHECKPOINTS_STEPS),
             use_tpu |-> av.use_tpu,
             tpu |-> av.tpu]]

\* parser.parse_known_args(): every flag takes its value or its default;
\* unrecognised arguments are returned separately and dropped ("args, _")
parse_known_args(av) ==
    [ok |-> TRUE,
     ns |-> [model_dir |-> Default(av.model_dir, DEFAULT_MODEL_DIR),
             train_batch_size |-> Default(av.train_batch_size, DEFAULT_TRAIN_BATCH_SIZE),
             save_checkpoints_steps |-> Default(av.save_checkpoints_steps, DEFAULT_SAVE_CHECKPOINTS_STEPS),
             use_tpu |-> av.use_tpu,
             tpu |-> av.tpu]]

(* ---------------- the notebook special case ---------------- *)

\* variant: the address used as it is, without the scheme
tpu_grpc_raw(addr) == addr

\* 'grpc://{}'.format(addr)
tpu_grpc(addr) == "grpc://" \o addr

\* args.model_dir = 'gs://your-gcs-bucket'
colab_model_dir(ns) == [ns EXCEPT !.model_dir = COLAB_MODEL_DIR]

\* args.tpu = tpu_grpc ; args.use_tpu = True
colab_tpu(ns, addr) == [ns EXCEPT !.tpu = Some(tpu_grpc(addr)), !.use_tpu = TRUE]

(* ---------------- model_fn ---------------- *)

RMSPropOptimizer == [name |-> "RMSPropOptimizer", learning_rate |-> "0.05", cross_shard |-> FALSE]

\* tf.contrib.tpu.CrossShardOptimizer(opt)
CrossShardOptimizer(opt) == [opt EXCEPT !.cross_shard = TRUE]

\* cond = lambda i, x: tf.less(i, 100)
cond(iv, xv) == iv < DIS_LOOP_LIMIT

\* def body(i, x): return tf.add(i, 1), gan_train_ops.discriminator_train_op
\* the second result is the tensor built before the loop, not a new op
body(iv, xv) == <<iv + 1, "discriminator_train_op">>

\* inputs = [tf.constant(0), tf.constant(0.0)]
inputs == <<DIS_LOOP_START, "constant(0.0)">>

\* the loop construct: iterate body while cond holds, return the loop variables
RECURSIVE while_loop(_)
while_loop(lv) == IF cond(lv[1], lv[2]) THEN while_loop(body(lv[1], lv[2])) ELSE lv

\* dis_train_op = while_loop(cond, body, inputs): the final loop variables
dis_train_op == while_loop(inputs)

\* variant: the group also runs gan_train_ops.global_step_inc_op
train_op_group_double(gen_optimizer, dis_optimizer, use_tpu) ==
    [dis_train_op |-> [while_loop |-> IF use_tpu THEN "tf.contrib.tpu.while_loop" ELSE "tf.while_loop",
                       optimizer |-> dis_optimizer],
     generator_train_op |-> [optimizer |-> gen_optimizer],
     global_step_inc |-> 2]

\* tf.group(dis_train_op, gan_train_ops.generator_train_op, global_step.assign_add(1))
train_op_group(gen_optimizer, dis_optimizer, use_tpu) ==
    [dis_train_op |-> [while_loop |-> IF use_tpu THEN "tf.contrib.tpu.while_loop" ELSE "tf.while_loop",
                       optimizer |-> dis_optimizer],
     generator_train_op |-> [optimizer |-> gen_optimizer],
     global_step_inc |-> 1]

\* variant: the train ops are built in every mode
model_fn_always_train(m, p) ==
    LET gen_optimizer == IF p.use_tpu THEN CrossShardOptimizer(RMSPropOptimizer) ELSE RMSPropOptimizer
        dis_optimizer == IF p.use_tpu THEN CrossShardOptimizer(RMSPropOptimizer) ELSE RMSPropOptimizer
    IN  [kind |-> IF p.use_tpu THEN "TPUEstimatorSpec" ELSE "EstimatorSpec",
         mode |-> m,
         predictions |-> "gan_model.generated_data",
         loss |-> Some("gan_loss.generator_loss"),
         train_op |-> Some(train_op_group(gen_optimizer, dis_optimizer, p.use_tpu))]

\* variant: a plain EstimatorSpec is returned whatever use_tpu is
model_fn_plain_spec(m, p) ==
    LET is_train == (m = TRAIN)
        gen_optimizer == IF p.use_tpu THEN CrossShardOptimizer(RMSPropOptimizer) ELSE RMSPropOptimizer
        dis_optimizer == IF p.use_tpu THEN CrossShardOptimizer(RMSPropOptimizer) ELSE RMSPropOptimizer
    IN  [kind |-> "EstimatorSpec",
         mode |-> m,
         predictions |-> "gan_model.generated_data",
         loss |-> IF is_train THEN Some("gan_loss.generator_loss") ELSE None,
         train_op |-> IF is_train THEN Some(train_op_group(gen_optimizer, dis_optimizer, p.use_tpu))
                      ELSE None]

model_fn(m, p) ==
    LET is_train == (m = TRAIN)
        gen_optimizer == IF p.use_tpu THEN CrossShardOptimizer(RMSPropOptimizer) ELSE RMSPropOptimizer
        dis_optimizer == IF p.use_tpu THEN CrossShardOptimizer(RMSPropOptimizer) ELSE RMSPropOptimizer
    IN  [kind |-> IF p.use_tpu THEN "TPUEstimatorSpec" ELSE "EstimatorSpec",
         mode |-> m,
         predictions |-> "gan_model.generated_data",
         loss |-> IF is_train THEN Some("gan_loss.generator_loss") ELSE None,
         train_op |-> IF is_train THEN Some(train_op_group(gen_optimizer, dis_optimizer, p.use_tpu))
                      ELSE None]

(* ---------------- train_input_fn ---------------- *)

\* params.get(key, default)
dict_get(p, key, default) == IF key \in DOMAIN p THEN p[key] ELSE default

\* number of elements of Dataset.from_tensor_slices over data_size rows
from_tensor_slices == data_size
\* dataset.repeat(): the elements are cycled without end
repeat(n) == IF n = 0 THEN 0 ELSE Infinite
\* dataset.shuffle(buffer): reorders, keeps the number of elements
shuffle(n, buffer) == n

\* variant: the dataset is not repeated
train_input_fn_no_repeat(p) ==
    [elements |-> shuffle(from_tensor_slices, SHUFFLE_BUFFER),
     batch_size |-> dict_get(p, "train_batch_size", FALLBACK_BATCH_SIZE),
     drop_remainder |-> TRUE]

\* the dataset train_input_fn returns: its element count before batching
\* and the arguments of dataset.batch
train_input_fn(p) ==
    [elements |-> shuffle(repeat(from_tensor_slices), SHUFFLE_BUFFER),
     batch_size |-> dict_get(p, "train_batch_size", FALLBACK_BATCH_SIZE),
     drop_remainder |-> TRUE]

\* size of the k-th batch (k = 0, 1, ...) of dataset.batch; 0 is end of sequence
batch(ds, k) ==
    IF ds.elements = Infinite \/ (k + 1) * ds.batch_size <= ds.elements
    THEN ds.batch_size
    ELSE IF ds.drop_remainder \/ k * ds.batch_size >= ds.elements
         THEN 0
         ELSE ds.elements - k * ds.batch_size

(* ---------------- main: the run configuration and the estimator ---------------- *)

\* tf.contrib.tpu.TPUConfig(num_shards=8, iterations_per_loop=args.save_checkpoints_steps)
TPUConfig(ns) == [num_shards |-> NUM_SHARDS, iterations_per_loop |-> ns.save_checkpoints_steps]

\* tf.contrib.tpu.RunConfig(cluster=..., model_dir=..., tpu_config=..., ...)
tpu_RunConfig(ns, cluster) ==
    [kind |-> "tf.contrib.tpu.RunConfig",
     cluster |-> cluster,
     model_dir |-> ns.model_dir,
     tpu_config |-> Some(TPUConfig(ns)),
     save_checkpoints_steps |-> ns.save_checkpoints_steps,
     save_summary_steps |-> SAVE_SUMMARY_STEPS]

\* tf.estimator.RunConfig(model_dir=..., save_checkpoints_steps=10, save_summary_steps=10)
RunConfig(ns) ==
    [kind |-> "tf.estimator.RunConfig",
     cluster |-> None,
     model_dir |-> ns.model_dir,
     tpu_config |-> None,
     save_checkpoints_steps |-> CPU_SAVE_CHECKPOINTS_STEPS,
     save_summary_steps |-> SAVE_SUMMARY_STEPS]

TPUEstimator(cfg, p, ns) ==
    [kind |-> "TPUEstimator", model_fn |-> "model_fn", config |-> cfg, params |-> p,
     train_batch_size |-> Some(ns.train_batch_size),
     eval_batch_size |-> Some(EVAL_BATCH_SIZE)]

Estimator(cfg, p) ==
    [kind |-> "Estimator", model_fn |-> "model_fn", config |-> cfg, params |-> p,
     train_batch_size |-> None,
     eval_batch_size |-> None]

\* variant: the TPU branch is also taken when only an address was given
main_branch_by_address(ns) == IF ns.use_tpu \/ ns.tpu # None THEN "resolver" ELSE "cpu_config"

\* the branch main takes: "if args.use_tpu"
main_branch(ns) == IF ns.use_tpu THEN "resolver" ELSE "cpu_config"

\* variant: a failed cluster resolution falls back to the CPU branch
on_failure_fallback(call) == IF call = "TPUClusterResolver" THEN "cpu_config" ELSE "failed"

\* no try/except anywhere: a raising call ends the script
on_failure(call) == "failed"

(* ---------------- what one run of train_op does ---------------- *)

\* One session run of train_op = tf.group(dis_train_op, generator_train_op,
\* assign_add): every op of the group is evaluated once.  The discriminator
\* loop iterates from inputs until cond fails; discriminator_train_op is a
\* tensor built outside the loop body, so the loop reads its value and the
\* op itself (hence the discriminator update) is evaluated once per run.
run_train_op(op) ==
    [i |-> dis_train_op[1],
     x |-> dis_train_op[2],
     disRuns |-> 1,
     genRuns |-> 1,
     stepIncs |-> 1,
     inc |-> op.global_step_inc]

Min(a, b) == IF a <= b THEN a ELSE b

(* ---------------- the script, one action per framework call ---------------- *)

Init ==
    /\ argv \in [model_dir : ModelDirFlags, train_batch_size : BatchSizeFlags,
                 save_checkpoints_steps : CheckpointFlags, use_tpu : BOOLEAN,
                 tpu : TpuFlags, unknown : BOOLEAN]
    /\ sys_modules \in BOOLEAN
    /\ environ \in ColabTpuAddrs
    /\ global_step \in 0..MaxRestoredStep
    /\ pc = "parse"
    /\ args = None /\ params = None /\ resolver = None /\ config = None
    /\ estimator = None /\ built = 0 /\ calls = <<>> /\ failure = None
    /\ espec = None /\ dataset = None /\ batches = 0 /\ lastBatch = 0
    /\ trainCalls = 0 /\ stepsArg = 0 /\ startStep = 0 /\ stepsRun = 0
    /\ mode = TRAIN /\ x = inputs[2]
    /\ loopLeft = 0 /\ i = 0 /\ disRuns = 0 /\ genRuns = 0 /\ stepIncs = 0
    /\ disUpdates = 0 /\ genUpdates = 0

\* a framework call raises: nothing catches it
Raise(at, call) ==
    /\ pc = at
    /\ pc' = on_failure(call)
    /\ failure' = Some(call)
    /\ calls' = Append(calls, call)

trainVars == <<espec, dataset, batches, lastBatch, startStep, global_step,
               stepsRun, loopLeft, mode, i, x, disRuns, genRuns, stepIncs,
               disUpdates, genUpdates>>

\* args, _ = parser.parse_known_args()  and  "if 'google.colab' in sys.modules"
ParseArgs ==
    /\ pc = "parse"
    /\ LET r == parse_known_args(argv) IN
        IF r.ok
        THEN /\ args' = Some(r.ns)
             /\ pc' = IF sys_modules THEN "auth" ELSE "main"
             /\ calls' = Append(calls, "parse_known_args")
             /\ failure' = failure
        ELSE /\ args' = args
             /\ pc' = on_failure("parse_known_args")
             /\ calls' = Append(calls, "parse_known_args")
             /\ failure' = Some("parse_known_args")
    /\ UNCHANGED <<argv, sys_modules, environ, params, resolver, config,
                   estimator, built, trainCalls, stepsArg>>
    /\ UNCHANGED trainVars

\* auth.authenticate_user(), then the assignments up to the credential upload
Authenticate ==
    /\ pc = "auth"
    /\ calls' = Append(calls, "authenticate_user")
    /\ IF environ # None
       THEN /\ args' = Some(colab_tpu(colab_model_dir(Get(args)), Get(environ)))
            /\ pc' = "upload"
       ELSE /\ args' = Some(colab_model_dir(Get(args)))
            /\ pc' = "main"
    /\ UNCHANGED <<argv, sys_modules, environ, params, resolver, config,
                   estimator, built, trainCalls, stepsArg, failure>>
    /\ UNCHANGED trainVars

AuthenticateFails ==
    /\ Raise("auth", "authenticate_user")
    /\ UNCHANGED scriptVars /\ UNCHANGED trainVars

\* with tf.Session(tpu_grpc) as sess: ... configure_gcs(sess, credentials=data)
UploadCredentials ==
    /\ pc = "upload"
    /\ calls' = Append(calls, "configure_gcs")
    /\ pc' = "main"
    /\ UNCHANGED scriptVars /\ UNCHANGED trainVars /\ UNCHANGED failure

UploadCredentialsFails ==
    /\ Raise("upload", "configure_gcs")
    /\ UNCHANGED scriptVars /\ UNCHANGED trainVars

\* main(args): params = vars(args) ; if args.use_tpu
MainStart ==
    /\ pc = "main"
    /\ params' = Some(Get(args))
    /\ pc' = main_branch(Get(args))
    /\ UNCHANGED <<argv, sys_modules, environ, args, resolver, config,
                   estimator, built, trainCalls, stepsArg, calls, failure>>
    /\ UNCHANGED trainVars

\* tpu_cluster_resolver = TPUClusterResolver(args.tpu)
CreateResolver ==
    /\ pc = "resolver"
    /\ resolver' = Some([tpu |-> Get(args).tpu])
    /\ calls' = Append(calls, "TPUClusterResolver")
    /\ pc' = "tpu_config"
    /\ UNCHANGED <<argv, sys_modules, environ, args, params, config,
                   estimator, built, trainCalls, stepsArg, failure>>
    /\ UNCHANGED trainVars

CreateResolverFails ==
    /\ Raise("resolver", "TPUClusterResolver")
    /\ UNCHANGED scriptVars /\ UNCHANGED trainVars

\* tpu_config = TPUConfig(...) ; config = tf.contrib.tpu.RunConfig(...)
CreateTPURunConfig ==
    /\ pc = "tpu_config"
    /\ config' = Some(tpu_RunConfig(Get(args), resolver))
    /\ calls' = Append(calls, "tpu.RunConfig")
    /\ pc' = "tpu_estimator"
    /\ UNCHANGED <<argv, sys_modules, environ, args, params, resolver,
                   estimator, built, trainCalls, stepsArg, failure>>
    /\ UNCHANGED trainVars

CreateTPURunConfigFails ==
    /\ Raise("tpu_config", "tpu.RunConfig")
    /\ UNCHANGED scriptVars /\ UNCHANGED trainVars

\* estimator = tf.contrib.tpu.TPUEstimator(...)
CreateTPUEstimator ==
    /\ pc = "tpu_estimator"
    /\ estimator' = Some(TPUEstimator(Get(config), Get(params), Get(args)))
    /\ built' = built + 1
    /\ calls' = Append(calls, "TPUEstimator")
    /\ pc' = "train"
    /\ UNCHANGED <<argv, sys_modules, environ, args, params, resolver,
                   config, trainCalls, stepsArg, failure>>
    /\ UNCHANGED trainVars

CreateTPUEstimatorFails ==
    /\ Raise("tpu_estimator", "TPUEstimator")
    /\ UNCHANGED scriptVars /\ UNCHANGED trainVars

\* config = tf.estimator.RunConfig(...)
CreateRunConfig ==
    /\ pc = "cpu_config"
    /\ config' = Some(RunConfig(Get(args)))
    /\ calls' = Append(calls, "RunConfig")
    /\ pc' = "cpu_estimator"
    /\ UNCHANGED <<argv, sys_modules, environ, args, params, resolver,
                   estimator, built, trainCalls, stepsArg, failure>>
    /\ UNCHANGED trainVars

CreateRunConfigFails ==
    /\ Raise("cpu_config", "RunConfig")
    /\ UNCHANGED scriptVars /\ UNCHANGED trainVars

\* estimator = tf.estimator.Estimator(model_fn, config=config, params=params)
CreateEstimator ==
    /\ pc = "cpu_estimator"
    /\ estimator' = Some(Estimator(Get(config), Get(params)))
    /\ built' = built + 1
    /\ calls' = Append(calls, "Estimator")
    /\ pc' = "train"
    /\ UNCHANGED <<argv, sys_modules, environ, args, params, resolver,
                   config, trainCalls, stepsArg, failure>>
    /\ UNCHANGED trainVars

CreateEstimatorFails ==
    /\ Raise("cpu_estimator", "Estimator")
    /\ UNCHANGED scriptVars /\ UNCHANGED trainVars

(* ---------------- estimator.train(train_input_fn, steps=100) ---------------- *)

IsTPU == Get(estimator).kind = "TPUEstimator"
LastStep == startStep + stepsArg
IterationsPerLoop == Get(Get(config).tpu_config).iterations_per_loop

\* the call: the input function and model_fn are invoked with the estimator's
\* params to build the training graph; training is to advance the global step
\* by steps
TrainBegin ==
    /\ pc = "train"
    /\ trainCalls' = trainCalls + 1
    /\ stepsArg' = TRAIN_STEPS
    /\ mode' = TRAIN
    /\ dataset' = Some(train_input_fn(Get(estimator).params))
    /\ espec' = Some(model_fn(TRAIN, Get(estimator).params))
    /\ startStep' = global_step
    /\ calls' = Append(calls, "train")
    /\ pc' = "training"
    /\ UNCHANGED <<argv, sys_modules, environ, args, params, resolver, config,
                   estimator, built, failure, batches, lastBatch, global_step,
                   stepsRun, loopLeft, disUpdates, genUpdates>>
    /\ UNCHANGED stepVars

TrainBeginFails ==
    /\ Raise("train", "train")
    /\ trainCalls' = trainCalls + 1
    /\ stepsArg' = TRAIN_STEPS
    /\ UNCHANGED <<argv, sys_modules, environ, args, params, resolver, config,
                   estimator, built>>
    /\ UNCHANGED trainVars

\* one training step: one batch is drawn and train_op is run once.  On a TPU
\* the steps run in loops of min(iterations_per_loop, steps left) and the
\* stop condition is looked at between loops only.
TrainStep ==
    /\ pc = "training"
    /\ loopLeft > 0 \/ global_step < LastStep
    /\ batch(Get(dataset), batches) > 0
    /\ LET r == run_train_op(Get(Get(espec).train_op))
           left == IF ~IsTPU THEN 1
                   ELSE IF loopLeft = 0
                        THEN Min(IterationsPerLoop, LastStep - global_step)
                        ELSE loopLeft
       IN  /\ lastBatch' = batch(Get(dataset), batches)
           /\ batches' = batches + 1
           /\ i' = r.i /\ x' = r.x
           /\ disRuns' = r.disRuns /\ genRuns' = r.genRuns
           /\ stepIncs' = r.stepIncs
           /\ global_step' = global_step + r.inc
           /\ disUpdates' = disUpdates + r.disRuns
           /\ genUpdates' = genUpdates + r.genRuns
           /\ stepsRun' = stepsRun + 1
           /\ loopLeft' = left - 1
    /\ UNCHANGED scriptVars
    /\ UNCHANGED <<pc, calls, failure, espec, dataset, startStep, mode>>

\* a training step raises (shape mismatch, lost TPU connection, ...)
TrainStepFails ==
    /\ pc = "training"
    /\ loopLeft > 0 \/ global_step < LastStep
    /\ pc' = on_failure("train")
    /\ failure' = Some("train")
    /\ UNCHANGED calls
    /\ UNCHANGED scriptVars /\ UNCHANGED trainVars

\* train returns: the global step reached the last step, or the input ended
TrainEnd ==
    /\ pc = "training"
    /\ \/ loopLeft = 0 /\ global_step >= LastStep
       \/ batch(Get(dataset), batches) = 0
    /\ pc' = "done"
    /\ UNCHANGED scriptVars /\ UNCHANGED trainVars
    /\ UNCHANGED <<calls, failure>>

Next ==
    \/ ParseArgs
    \/ Authenticate \/ AuthenticateFails
    \/ UploadCredentials \/ UploadCredentialsFails
    \/ MainStart
    \/ CreateResolver \/ CreateResolverFails
    \/ CreateTPURunConfig \/ CreateTPURunConfigFails
    \/ CreateTPUEstimator \/ CreateTPUEstimatorFails
    \/ CreateRunConfig \/ CreateRunConfigFails
    \/ CreateEstimator \/ CreateEstimatorFails
    \/ TrainBegin \/ TrainBeginFails
    \/ TrainStep \/ TrainStepFails
    \/ TrainEnd

Spec == Init /\ [][Next]_vars

TypeOK == pc \in {"parse", "auth", "upload", "main", "resolver", "tpu_config",
                  "tpu_estimator", "cpu_config", "cpu_estimator", "train",
                  "training", "done", "failed"}

(***************************************************************************)
(* The two functions handed to the estimator, called directly: model_fn    *)
(* with any mode and params, its train_op run op by op (the ops of a       *)
(* tf.group are not ordered among themselves), and the dataset of          *)
(* train_input_fn iterated for as many batches as a training run draws.    *)
(***************************************************************************)

FnBatchSizes == {DEFAULT_TRAIN_BATCH_SIZE, 40} \cup {Get(b) : b \in BatchSizeFlags \ {None}}
FnParams == [use_tpu : BOOLEAN] \cup [use_tpu : BOOLEAN, train_batch_size : FnBatchSizes]

InitFn ==
    /\ mode \in Modes
    /\ params \in {Some(p) : p \in FnParams}
    /\ global_step \in 0..MaxRestoredStep
    /\ pc = "fn_call"
    /\ argv = [model_dir |-> None, train_batch_size |-> None,
               save_checkpoints_steps |-> None, use_tpu |-> FALSE,
               tpu |-> None, unknown |-> FALSE]
    /\ sys_modules = FALSE /\ environ = None
    /\ args = None /\ resolver = None /\ config = None
    /\ estimator = None /\ built = 0 /\ calls = <<>> /\ failure = None
    /\ espec = None /\ dataset = None /\ batches = 0 /\ lastBatch = 0
    /\ trainCalls = 0 /\ stepsArg = 0 /\ startStep = global_step /\ stepsRun = 0
    /\ x = inputs[2]
    /\ loopLeft = 0 /\ i = 0 /\ disRuns = 0 /\ genRuns = 0 /\ stepIncs = 0
    /\ disUpdates = 0 /\ genUpdates = 0

fnFrame == <<argv, sys_modules, environ, args, params, resolver, config,
             estimator, built, calls, failure, trainCalls, stepsArg,
             startStep, loopLeft, mode>>

HasTrainOp == Get(espec).train_op # None
TheTrainOp == Get(Get(espec).train_op)

CallModelFn ==
    /\ pc = "fn_call"
    /\ espec' = Some(model_fn(mode, Get(params)))
    /\ pc' = "fn_input"
    /\ UNCHANGED fnFrame /\ UNCHANGED stepVars
    /\ UNCHANGED <<dataset, batches, lastBatch, global_step, stepsRun,
                   disUpdates, genUpdates>>

CallInputFn ==
    /\ pc = "fn_input"
    /\ dataset' = Some(train_input_fn(Get(params)))
    /\ pc' = "fn_idle"
    /\ UNCHANGED fnFrame /\ UNCHANGED stepVars
    /\ UNCHANGED <<espec, batches, lastBatch, global_step, stepsRun,
                   disUpdates, genUpdates>>

\* a session run of train_op starts: a batch is drawn, the loop variables
\* take their initial values
StepBegin ==
    /\ pc = "fn_idle"
    /\ HasTrainOp
    /\ stepsRun < MaxFnSteps
    /\ batch(Get(dataset), batches) > 0
    /\ lastBatch' = batch(Get(dataset), batches)
    /\ batches' = batches + 1
    /\ i' = inputs[1] /\ x' = inputs[2]
    /\ disRuns' = 0 /\ genRuns' = 0 /\ stepIncs' = 0
    /\ pc' = "fn_step"
    /\ UNCHANGED fnFrame
    /\ UNCHANGED <<espec, dataset, global_step, stepsRun, disUpdates, genUpdates>>

\* gan_train_ops.discriminator_train_op: a node of the graph outside the
\* loop, evaluated once in a session run
EvalDiscriminatorTrainOp ==
    /\ pc = "fn_step"
    /\ disRuns = 0
    /\ disRuns' = 1
    /\ disUpdates' = disUpdates + 1
    /\ UNCHANGED fnFrame
    /\ UNCHANGED <<pc, espec, dataset, batches, lastBatch, global_step,
                   stepsRun, genUpdates, i, x, genRuns, stepIncs>>

\* one iteration of the discriminator loop: body reads the value of
\* discriminator_train_op
LoopIteration ==
    /\ pc = "fn_step"
    /\ disRuns = 1
    /\ cond(i, x)
    /\ i' = body(i, x)[1]
    /\ x' = body(i, x)[2]
    /\ UNCHANGED fnFrame
    /\ UNCHANGED <<pc, espec, dataset, batches, lastBatch, global_step,
                   stepsRun, disUpdates, genUpdates, disRuns, genRuns, stepIncs>>

\* gan_train_ops.generator_train_op
EvalGeneratorTrainOp ==
    /\ pc = "fn_step"
    /\ genRuns = 0
    /\ genRuns' = 1
    /\ genUpdates' = genUpdates + 1
    /\ UNCHANGED fnFrame
    /\ UNCHANGED <<pc, espec, dataset, batches, lastBatch, global_step,
                   stepsRun, disUpdates, i, x, disRuns, stepIncs>>

\* global_step.assign_add(1)
AssignAddGlobalStep ==
    /\ pc = "fn_step"
    /\ stepIncs = 0
    /\ stepIncs' = 1
    /\ global_step' = global_step + TheTrainOp.global_step_inc
    /\ UNCHANGED fnFrame
    /\ UNCHANGED <<pc, espec, dataset, batches, lastBatch, stepsRun,
                   disUpdates, genUpdates, i, x, disRuns, genRuns>>

\* the session run returns when every op of the group has finished
StepEnd ==
    /\ pc = "fn_step"
    /\ disRuns = 1 /\ ~cond(i, x)
    /\ genRuns = 1
    /\ stepIncs = 1
    /\ stepsRun' = stepsRun + 1
    /\ pc' = "fn_idle"
    /\ UNCHANGED fnFrame /\ UNCHANGED stepVars
    /\ UNCHANGED <<espec, dataset, batches, lastBatch, global_step,
                   disUpdates, genUpdates>>

\* the next batch of the dataset, or the end of the sequence
NextBatch ==
    /\ pc = "fn_idle"
    /\ ~HasTrainOp \/ stepsRun = MaxFnSteps
    /\ batches < TRAIN_STEPS
    /\ lastBatch' = batch(Get(dataset), batches)
    /\ IF batch(Get(dataset), batches) > 0
       THEN batches' = batches + 1 /\ pc' = "fn_idle"
       ELSE batches' = batches /\ pc' = "fn_end"
    /\ UNCHANGED fnFrame /\ UNCHANGED stepVars
    /\ UNCHANGED <<espec, dataset, global_step, stepsRun, disUpdates, genUpdates>>

NextFn ==
    \/ CallModelFn
    \/ CallInputFn
    \/ StepBegin
    \/ EvalDiscriminatorTrainOp
    \/ LoopIteration
    \/ EvalGeneratorTrainOp
    \/ AssignAddGlobalStep
    \/ StepEnd
    \/ NextBatch

SpecFn == InitFn /\ [][NextFn]_vars

\* the step taken as a whole (TrainStep) ends where the op-by-op run ends
StepAgrees ==
    (pc = "fn_idle" /\ stepsRun > 0 /\ batches <= MaxFnSteps) =>
        LET r == run_train_op(TheTrainOp) IN
            /\ i = r.i /\ x = r.x /\ disRuns = r.disRuns /\ genRuns = r.genRuns
            /\ stepIncs = r.stepIncs
            /\ global_step = startStep + stepsRun * r.inc
            /\ disUpdates = stepsRun * r.disRuns
            /\ genUpdates = stepsRun * r.genRuns

(* ======================= the claims ======================= *)

Started == pc \in {"training", "done"}
Range(seq) == {seq[k] : k \in 1..Len(seq)}
Occurrences(seq, c) == Cardinality({k \in 1..Len(seq) : seq[k] = c})
NoFlags ==
    /\ argv.model_dir = None /\ argv.train_batch_size = None
    /\ argv.save_checkpoints_steps = None /\ argv.tpu = None
    /\ ~argv.use_tpu

\* C1: a run that does not fail calls estimator.train exactly once with
\* steps=100 and ends after exactly 100 training steps, the global step being
\* 100 above its value at the start, one increment per training step, in TPU
\* mode and in CPU mode and for every --save-checkpoints-steps.
C1_TrainsHundredSteps ==
    /\ Started => /\ trainCalls = 1
                  /\ stepsArg = 100
                  /\ global_step = startStep + stepsRun
                  /\ stepsRun <= 100
    /\ pc = "done" => /\ stepsRun = 100
                      /\ global_step = startStep + 100

C1_Witness ==
    /\ pc = "done" /\ stepsRun = 100
    /\ Get(estimator).kind = "TPUEstimator"
    /\ Get(Get(config).tpu_config).iterations_per_loop = 3
    /\ startStep = 1

\* C2: main builds exactly one estimator, chosen by args.use_tpu alone: a TPU
\* cluster resolver made from args.tpu, a TPU RunConfig and a TPUEstimator when
\* it is true; a plain RunConfig and Estimator and no TPU cluster resolver when
\* it is false, even if --tpu gave an address.
C2_OneEstimatorByUseTpu ==
    /\ built <= 1
    /\ (estimator # None) = (built = 1)
    /\ (params # None /\ ~Get(params).use_tpu) =>
          /\ resolver = None
          /\ config # None => Get(config).kind = "tf.estimator.RunConfig"
          /\ estimator # None => /\ Get(estimator).kind = "Estimator"
                                 /\ Get(estimator).config = Get(config)
    /\ (params # None /\ Get(params).use_tpu) =>
          /\ resolver # None => Get(resolver).tpu = Get(args).tpu
          /\ config # None => /\ Get(config).kind = "tf.contrib.tpu.RunConfig"
                              /\ Get(config).cluster = resolver
                              /\ resolver # None
          /\ estimator # None => /\ Get(estimator).kind = "TPUEstimator"
                                 /\ Get(estimator).config = Get(config)

C2_Witness ==
    /\ pc = "done"
    /\ ~Get(args).use_tpu
    /\ Get(args).tpu = Some("10.0.0.2:8470")
    /\ Get(estimator).kind = "Estimator"

\* C3 (as claimed): the checkpoint interval of the run configuration the
\* estimator trains with equals the value of --save-checkpoints-steps, in TPU
\* mode and in CPU mode.
C3_CheckpointIntervalIsFlag ==
    Started => Get(estimator).config.save_checkpoints_steps = Get(args).save_checkpoints_steps

\* C4: the notebook special case changes the parsed flags only so: with
\* google.colab loaded, authentication runs first and model_dir becomes
\* 'gs://your-gcs-bucket'; if COLAB_TPU_ADDR is set as well, tpu becomes
\* 'grpc://' + address, use_tpu becomes true and the credentials are uploaded
\* before training starts.  Otherwise model_dir, tpu and use_tpu keep their
\* command-line values; batch size and checkpoint interval always do.
C4_NotebookOverride ==
    params # None =>
        LET p == Get(params) IN
        /\ p.train_batch_size = (IF argv.train_batch_size = None THEN 16 ELSE argv.train_batch_size[1])
        /\ p.save_checkpoints_steps = (IF argv.save_checkpoints_steps = None THEN 10 ELSE argv.save_checkpoints_steps[1])
        /\ ~sys_modules =>
              /\ p.model_dir = (IF argv.model_dir = None THEN "/tmp/tpu-template" ELSE argv.model_dir[1])
              /\ p.tpu = argv.tpu
              /\ p.use_tpu = argv.use_tpu
              /\ "authenticate_user" \notin Range(calls)
              /\ "configure_gcs" \notin Range(calls)
        /\ sys_modules =>
              /\ p.model_dir = "gs://your-gcs-bucket"
              /\ calls[2] = "authenticate_user"
        /\ (sys_modules /\ environ = None) =>
              /\ p.tpu = argv.tpu
              /\ p.use_tpu = argv.use_tpu
        /\ (sys_modules /\ environ = Some("10.1.2.3:8470")) => p.tpu = Some("grpc://10.1.2.3:8470")
        /\ (sys_modules /\ environ = Some("")) => p.tpu = Some("grpc://")
        /\ (sys_modules /\ environ # None) =>
              /\ p.use_tpu
              /\ calls[3] = "configure_gcs"
              /\ \A k \in 1..Len(calls) : calls[k] = "train" => k > 3

C4_Witness ==
    /\ pc = "done"
    /\ sys_modules /\ environ = Some("10.1.2.3:8470")
    /\ argv.model_dir # None /\ ~argv.use_tpu /\ argv.tpu # None
    /\ Get(params).tpu = Some("grpc://10.1.2.3:8470")

\* C5: a failure of a framework call ends the run as that failure: the failed
\* call is the last thing the script did, no call is made twice, a run that
\* entered the TPU branch never builds the CPU configuration or estimator, and
\* training is never started after an earlier call failed.
C5_FailurePropagates ==
    /\ failure # None =>
          /\ pc = "failed"
          /\ calls[Len(calls)] = Get(failure)
          /\ Get(failure) # "train" => trainCalls = 0 /\ stepsRun = 0
    /\ pc = "failed" => failure # None
    /\ \A c \in Range(calls) : Occurrences(calls, c) = 1
    /\ trainCalls <= 1
    /\ ~({"TPUClusterResolver", "tpu.RunConfig", "TPUEstimator"} \cap Range(calls) # {}
         /\ {"RunConfig", "Estimator"} \cap Range(calls) # {})

C5_Witness ==
    /\ failure = Some("TPUClusterResolver")
    /\ pc = "failed"
    /\ estimator = None /\ trainCalls = 0

\* C6: with no flags and outside the notebook, training uses model directory
\* '/tmp/tpu-template', batch size 16, checkpoint interval 10, no TPU address
\* and the CPU-backed estimator; unrecognised arguments do not abort the run.
C6_Defaults ==
    /\ failure # Some("parse_known_args")
    /\ (Started /\ NoFlags /\ ~sys_modules) =>
          /\ Get(estimator).kind = "Estimator"
          /\ Get(estimator).config.model_dir = "/tmp/tpu-template"
          /\ Get(estimator).config.save_checkpoints_steps = 10
          /\ Get(dataset).batch_size = 16
          /\ stepsRun > 0 => lastBatch = 16
          /\ Get(estimator).params.tpu = None
          /\ ~Get(estimator).params.use_tpu
          /\ resolver = None

C6_Witness ==
    /\ pc = "done" /\ NoFlags /\ ~sys_modules /\ argv.unknown
    /\ lastBatch = 16

\* C7 (as claimed): a finished training step has trained the discriminator 100
\* steps, its loop counter going from 0 to 100, has run the generator train op
\* once and has added 1 to the global step.
C7_HundredDiscriminatorSteps ==
    (pc = "fn_idle" /\ stepsRun > 0) =>
        /\ i = 100
        /\ disUpdates = 100 * stepsRun
        /\ genUpdates = stepsRun
        /\ global_step = startStep + stepsRun

\* C8: every batch of the input function holds exactly batch_size pairs,
\* batch_size being params['train_batch_size'] when present and 16 otherwise;
\* no partial batch is produced and the data does not run out within the 100
\* batches a training run draws, although the data set has 100 examples.
C8_FullBatchesForever ==
    dataset # None =>
        LET size == IF "train_batch_size" \in DOMAIN Get(params)
                    THEN Get(params).train_batch_size ELSE 16
        IN  /\ Get(dataset).batch_size = size
            /\ batches > 0 => lastBatch = size
            /\ pc # "fn_end"
            /\ (pc = "fn_idle" /\ batches < 100) => ENABLED (StepBegin \/ NextBatch)

C8_Witness ==
    /\ batches = 100
    /\ "train_batch_size" \notin DOMAIN Get(params)
    /\ lastBatch = 16
    /\ 100 * lastBatch > data_size

\* C9: in one run the TPU-specific choices all agree with the use_tpu main acts
\* on (after the notebook override): TPUEstimator, both optimizers wrapped in
\* CrossShardOptimizer, the TPU while_loop and a TPUEstimatorSpec if and only
\* if use_tpu is true.
C9_TpuChoicesAgree ==
    Started =>
        LET u == Get(params).use_tpu
            op == Get(Get(espec).train_op)
        IN  /\ u = (argv.use_tpu \/ (sys_modules /\ environ # None))
            /\ u = Get(args).use_tpu
            /\ (Get(estimator).kind = "TPUEstimator") = u
            /\ (Get(estimator).kind = "Estimator") = ~u
            /\ op.generator_train_op.optimizer.cross_shard = u
            /\ op.dis_train_op.optimizer.cross_shard = u
            /\ (op.dis_train_op.while_loop = "tf.contrib.tpu.while_loop") = u
            /\ (op.dis_train_op.while_loop = "tf.while_loop") = ~u
            /\ (Get(espec).kind = "TPUEstimatorSpec") = u
            /\ (Get(espec).kind = "EstimatorSpec") = ~u

C9_Witness ==
    /\ pc = "done"
    /\ ~argv.use_tpu /\ sys_modules /\ environ # None
    /\ Get(espec).kind = "TPUEstimatorSpec"
    /\ Get(estimator).kind = "TPUEstimator"

\* C10: model_fn returns a loss and a train op if and only if mode is TRAIN;
\* in the other modes both are None, so no optimizer, discriminator loop or
\* global-step increment exists or runs; the predictions are the generated
\* data in every mode.
C10_TrainOpOnlyInTrain ==
    espec # None =>
        LET e == Get(espec) IN
        /\ e.mode = mode
        /\ e.predictions = "gan_model.generated_data"
        /\ (e.loss # None) = (mode = "train")
        /\ (e.train_op # None) = (mode = "train")
        /\ mode # "train" => /\ disUpdates = 0 /\ genUpdates = 0
                             /\ global_step = startStep /\ stepsRun = 0

C10_Witness ==
    /\ espec # None /\ mode = "infer" /\ batches > 0
    /\ Get(espec).train_op = None /\ Get(espec).loss = None

====
